---- MODULE Spec2Model ----
(***************************************************************************)
(* git-id: identity-to-remote reconciliation.                              *)
(*                                                                         *)
(* Strings of the program are sequences of one-character strings, so that  *)
(* searching, splitting, trimming and formatting are computed as the code  *)
(* computes them.  Positions are 1-based; 0 stands for Rust's None.        *)
(***************************************************************************)
EXTENDS Integers, Sequences, FiniteSets, TLC

(***************************************************************************)
(* str primitives (std::str)                                               *)
(***************************************************************************)
SetMin(S) == CHOOSE x \in S : \A y \in S : x <= y

SetMax(S) == CHOOSE x \in S : \A y \in S : x >= y

\* s[from..] of Rust, from a 1-based position
Tail_from(s, from) == SubSeq(s, from, Len(s))

StartsWith(s, p) == Len(p) <= Len(s) /\ SubSeq(s, 1, Len(p)) = p

EndsWith(s, p) == Len(p) <= Len(s) /\ SubSeq(s, Len(s) - Len(p) + 1, Len(s)) = p

\* p occurs in s at position i (the first byte is compared first)
Occurs(s, p, i) == (Len(p) = 0 \/ s[i] = p[1]) /\ SubSeq(s, i, i + Len(p) - 1) = p

\* str::find: position of the first occurrence of p in s, 0 when there is none
Find(s, p) ==
    LET I == {i \in 1..(Len(s) - Len(p) + 1) : Occurs(s, p, i)}
    IN  IF I = {} THEN 0 ELSE SetMin(I)

\* str::rfind: position of the last occurrence of p in s, 0 when there is none
RFind(s, p) ==
    LET I == {i \in 1..(Len(s) - Len(p) + 1) : Occurs(s, p, i)}
    IN  IF I = {} THEN 0 ELSE SetMax(I)

Contains(s, p) == Find(s, p) # 0

\* str::trim_end_matches: strips the suffix p as often as it repeats
RECURSIVE TrimEndMatches(_, _)
TrimEndMatches(s, p) ==
    IF Len(p) > 0 /\ EndsWith(s, p)
    THEN TrimEndMatches(SubSeq(s, 1, Len(s) - Len(p)), p)
    ELSE s

\* str::replace: every non-overlapping occurrence of pat, left to right
RECURSIVE Replace(_, _, _)
Replace(s, pat, rep) ==
    LET i == Find(s, pat)
    IN  IF i = 0 THEN s
        ELSE SubSeq(s, 1, i - 1) \o rep \o Replace(Tail_from(s, i + Len(pat)), pat, rep)

\* str::split on one character: the parts between its occurrences, in order
RECURSIVE SplitOn(_, _)
SplitOn(s, c) ==
    LET i == Find(s, c)
    IN  IF i = 0 THEN <<s>>
        ELSE <<SubSeq(s, 1, i - 1)>> \o SplitOn(Tail_from(s, i + 1), c)

(***************************************************************************)
(* Literals of the program                                                 *)
(***************************************************************************)
NL == <<"\n">>

DEFAULT_HOST == <<"g", "i", "t", "h", "u", "b", ".", "c", "o", "m">>

MARKER_S == <<"#", " ", ">", ">", ">", " ", "g", "i", "t", "-", "i", "d", ":", " ", "{", "i", "d", "}", " ", ">", ">", ">">>

MARKER_E == <<"#", " ", "<", "<", "<", " ", "g", "i", "t", "-", "i", "d", ":", " ", "{", "i", "d", "}", " ", "<", "<", "<">>

ID_HOLE == <<"{", "i", "d", "}">>

GIT_AT == <<"g", "i", "t", "@">>

HTTPS_SCHEME == <<"h", "t", "t", "p", "s", ":", "/", "/">>

DOT_GIT == <<".", "g", "i", "t">>

(***************************************************************************)
(* models.rs, config.rs                                                    *)
(***************************************************************************)
Account(u, e, h, k, t) ==
    [username |-> u, email |-> e, host |-> h, ssh_key |-> k, https_token |-> t]

\* the inline default that every reader of acc.host applies
effective_host(acc) == IF acc.host = <<>> THEN DEFAULT_HOST ELSE acc.host

account_id(acc) == acc.username \o <<"@">> \o effective_host(acc)

ssh_host_alias(acc) == effective_host(acc) \o <<"-">> \o acc.username

NoAccount == Account(<<>>, <<>>, <<>>, <<>>, <<>>)

\* the hint of find_account for one match of the bare username key
hint_of(key, a) == <<"'">> \o key \o <<"@">> \o effective_host(a) \o <<"'">>

\* a plausible slip: a bare username that several accounts carry takes the first
find_account_first_match(accts, key) ==
    LET at == Find(key, <<"@">>)
        uname == SubSeq(key, 1, at - 1)
        host == Tail_from(key, at + 1)
        test(a) == IF at # 0 THEN a.username = uname /\ a.host = host
                   ELSE a.username = key
        matches == SelectSeq(accts, test)
    IN  IF matches # <<>>
        THEN [kind |-> "found", acc |-> matches[1], hints |-> <<>>]
        ELSE [kind |-> "notfound", acc |-> NoAccount, hints |-> <<>>]

\* find_account over the loaded records; "ambiguous" is its die(.., 2)
find_account(accts, key) ==
    LET at == Find(key, <<"@">>)
        uname == SubSeq(key, 1, at - 1)
        host == Tail_from(key, at + 1)
        exact(a) == a.username = uname /\ a.host = host
        byname(a) == a.username = key
        pair == SelectSeq(accts, exact)
        matches == SelectSeq(accts, byname)
    IN  IF at # 0
        THEN IF pair # <<>>
             THEN [kind |-> "found", acc |-> pair[1], hints |-> <<>>]
             ELSE [kind |-> "notfound", acc |-> NoAccount, hints |-> <<>>]
        ELSE IF Len(matches) = 1
             THEN [kind |-> "found", acc |-> matches[1], hints |-> <<>>]
             ELSE IF Len(matches) = 0
             THEN [kind |-> "notfound", acc |-> NoAccount, hints |-> <<>>]
             ELSE [kind |-> "ambiguous", acc |-> NoAccount,
                   hints |-> [i \in 1..Len(matches) |-> hint_of(key, matches[i])]]

(***************************************************************************)
(* ssh.rs: the stanza manager                                              *)
(***************************************************************************)
StartMarker(id) == Replace(MARKER_S, ID_HOLE, id)

EndMarker(id) == Replace(MARKER_E, ID_HOLE, id)

make_stanza(acc) ==
    LET keyfile == IF acc.ssh_key = <<>>
                   THEN <<"~", "/", ".", "s", "s", "h", "/", "i", "d", "_", "e", "d", "2", "5", "5", "1", "9", "_">> \o acc.username
                   ELSE acc.ssh_key
    IN  StartMarker(account_id(acc)) \o NL
        \o <<"H", "o", "s", "t", " ">> \o ssh_host_alias(acc) \o NL
        \o <<" ", " ", " ", " ", "H", "o", "s", "t", "N", "a", "m", "e", " ">> \o effective_host(acc) \o NL
        \o <<" ", " ", " ", " ", "U", "s", "e", "r", " ", "g", "i", "t">> \o NL
        \o <<" ", " ", " ", " ", "I", "d", "e", "n", "t", "i", "t", "y", "F", "i", "l", "e", " ">> \o keyfile \o NL
        \o <<" ", " ", " ", " ", "I", "d", "e", "n", "t", "i", "t", "i", "e", "s", "O", "n", "l", "y", " ", "y", "e", "s">> \o NL
        \o EndMarker(account_id(acc)) \o NL

\* a plausible slip: the newline after the end marker is not taken into the range
replace_stanza_keeps_newline(content, start, end, replacement) ==
    LET start_pos == Find(content, start)
        end_offset == IF start_pos = 0 THEN 0 ELSE Find(Tail_from(content, start_pos), end)
        end_pos == start_pos + (end_offset - 1) + Len(end)
    IN  IF start_pos = 0 \/ end_offset = 0 THEN content
        ELSE SubSeq(content, 1, start_pos - 1) \o replacement \o Tail_from(content, end_pos)

\* a plausible slip: the end marker is searched from the top of the text
replace_stanza_end_from_top(content, start, end, replacement) ==
    LET start_pos == Find(content, start)
        end_offset == Find(content, end)
        end_pos0 == start_pos + (end_offset - 1) + Len(end)
        end_pos == IF end_pos0 <= Len(content) /\ content[end_pos0] = "\n"
                   THEN end_pos0 + 1 ELSE end_pos0
    IN  IF start_pos = 0 \/ end_offset = 0 THEN content
        ELSE SubSeq(content, 1, start_pos - 1) \o replacement \o Tail_from(content, end_pos)

\* end_pos is the 1-based position of the first byte after the replaced range
replace_stanza(content, start, end, replacement) ==
    LET start_pos == Find(content, start)
        end_offset == IF start_pos = 0 THEN 0 ELSE Find(Tail_from(content, start_pos), end)
        end_pos0 == start_pos + (end_offset - 1) + Len(end)
        end_pos == IF end_pos0 <= Len(content) /\ content[end_pos0] = "\n"
                   THEN end_pos0 + 1 ELSE end_pos0
    IN  IF start_pos = 0 \/ end_offset = 0 THEN content
        ELSE SubSeq(content, 1, start_pos - 1) \o replacement \o Tail_from(content, end_pos)

\* a plausible slip: the newline before the start marker is not swallowed
remove_stanza_keeps_preceding_newline(content, start, end) ==
    LET start_pos == Find(content, start)
        end_offset == IF start_pos = 0 THEN 0 ELSE Find(Tail_from(content, start_pos), end)
        end_pos0 == start_pos + (end_offset - 1) + Len(end)
        end_pos == IF end_pos0 <= Len(content) /\ content[end_pos0] = "\n"
                   THEN end_pos0 + 1 ELSE end_pos0
    IN  IF start_pos = 0 \/ end_offset = 0 THEN content
        ELSE SubSeq(content, 1, start_pos - 1) \o Tail_from(content, end_pos)

remove_stanza(content, start, end) ==
    LET start_pos0 == Find(content, start)
        end_offset == IF start_pos0 = 0 THEN 0 ELSE Find(Tail_from(content, start_pos0), end)
        end_pos0 == start_pos0 + (end_offset - 1) + Len(end)
        end_pos == IF end_pos0 <= Len(content) /\ content[end_pos0] = "\n"
                   THEN end_pos0 + 1 ELSE end_pos0
        start_pos == IF start_pos0 > 1 /\ content[start_pos0 - 1] = "\n"
                     THEN start_pos0 - 1 ELSE start_pos0
    IN  IF start_pos0 = 0 \/ end_offset = 0 THEN content
        ELSE SubSeq(content, 1, start_pos - 1) \o Tail_from(content, end_pos)

\* a plausible slip: the stanza is appended without a look for the start marker
Upsert_always_appends(existing, acc) ==
    TrimEndMatches(existing, NL) \o NL \o NL \o make_stanza(acc)

\* one iteration of the loop of update_ssh_config: Upsert(existing, acc)
Upsert(existing, acc) ==
    LET start == StartMarker(account_id(acc))
        end == EndMarker(account_id(acc))
    IN  IF Contains(existing, start)
        THEN replace_stanza(existing, start, end, make_stanza(acc))
        ELSE TrimEndMatches(existing, NL) \o NL \o NL \o make_stanza(acc)

\* the whole loop of update_ssh_config over accounts[i..]
RECURSIVE UpsertAll(_, _, _)
UpsertAll(existing, accts, i) ==
    IF i > Len(accts) THEN existing
    ELSE UpsertAll(Upsert(existing, accts[i]), accts, i + 1)

(***************************************************************************)
(* git.rs: the remote URL codec                                            *)
(***************************************************************************)
NotRecognized == [ok |-> FALSE, fmt |-> "none", host |-> <<>>, owner |-> <<>>, repo |-> <<>>]

Parsed(f, h, o, r) == [ok |-> TRUE, fmt |-> f, host |-> h, owner |-> o, repo |-> r]

strip_host_alias_suffix(raw_host) ==
    LET last_dash == RFind(raw_host, <<"-">>)
    IN  IF last_dash # 0 /\ ~Contains(Tail_from(raw_host, last_dash + 1), <<".">>)
        THEN SubSeq(raw_host, 1, last_dash - 1)
        ELSE raw_host

\* the git@ branch of parse_remote_url; NotRecognized stands for falling through
parse_ssh_url(url) ==
    LET rest == Tail_from(url, Len(GIT_AT) + 1)
        colon == Find(rest, <<":">>)
        raw_host == SubSeq(rest, 1, colon - 1)
        path == TrimEndMatches(Tail_from(rest, colon + 1), DOT_GIT)
        slash == Find(path, <<"/">>)
    IN  IF StartsWith(url, GIT_AT) /\ colon # 0 /\ slash # 0
        THEN Parsed("ssh", strip_host_alias_suffix(raw_host),
                    SubSeq(path, 1, slash - 1), Tail_from(path, slash + 1))
        ELSE NotRecognized

\* the https:// branch of parse_remote_url; splitn(3, '/') gives three parts exactly
\* when the remainder holds two slashes, and the third part is all that follows
parse_https_url(url) ==
    LET rest0 == Tail_from(url, Len(HTTPS_SCHEME) + 1)
        at == Find(rest0, <<"@">>)
        rest1 == IF at # 0 THEN Tail_from(rest0, at + 1) ELSE rest0
        rest == TrimEndMatches(rest1, DOT_GIT)
        s1 == Find(rest, <<"/">>)
        after1 == Tail_from(rest, s1 + 1)
        s2 == IF s1 = 0 THEN 0 ELSE Find(after1, <<"/">>)
    IN  IF StartsWith(url, HTTPS_SCHEME) /\ s1 # 0 /\ s2 # 0
        THEN Parsed("https", SubSeq(rest, 1, s1 - 1),
                    SubSeq(after1, 1, s2 - 1), Tail_from(after1, s2 + 1))
        ELSE NotRecognized

parse_remote_url(url) ==
    IF parse_ssh_url(url).ok THEN parse_ssh_url(url) ELSE parse_https_url(url)

\* a plausible slip: the host itself instead of the account's alias
build_ssh_url_raw_host(acc, owner, repo) ==
    GIT_AT \o effective_host(acc) \o <<":">> \o owner \o <<"/">> \o repo \o DOT_GIT

build_ssh_url(acc, owner, repo) ==
    GIT_AT \o ssh_host_alias(acc) \o <<":">> \o owner \o <<"/">> \o repo \o DOT_GIT

\* a plausible slip: the credential separator is written even without a token
build_https_url_always_at(token, host, owner, repo) ==
    HTTPS_SCHEME \o token \o <<"@">> \o host \o <<"/">> \o owner \o <<"/">> \o repo \o DOT_GIT

build_https_url(token, host, owner, repo) ==
    IF token # <<>>
    THEN HTTPS_SCHEME \o token \o <<"@">> \o host \o <<"/">> \o owner \o <<"/">> \o repo \o DOT_GIT
    ELSE HTTPS_SCHEME \o host \o <<"/">> \o owner \o <<"/">> \o repo \o DOT_GIT

(***************************************************************************)
(* The state: what one invocation of git-id reads and leaves behind        *)
(***************************************************************************)
VARIABLES
    accounts,   \* the records of ~/.config/git-id/accounts.toml, in file order
    acctFile,   \* whether accounts.toml exists
    sshDir,     \* whether ~/.ssh exists
    cfgExists,  \* whether ~/.ssh/config exists
    cfgText,    \* the content of ~/.ssh/config
    keyFiles,   \* the key files on disk: a set of [path, mode]
    remotes,    \* the remotes of the repository: sequence of [name, url]
    inRepo,     \* whether the working directory is inside a git repository
    gitCfg,     \* user.name / user.email per scope
    argv,       \* the command line that the session runs (and runs again)
    runs,       \* how often it has been run
    last        \* what the last operation was given and what it reported

vars == <<accounts, acctFile, sshDir, cfgExists, cfgText, keyFiles, remotes, inRepo,
          gitCfg, argv, runs, last>>

NoArgv == [cmd |-> "none"]

world == <<accounts, acctFile, sshDir, cfgExists, cfgText, keyFiles, remotes, inRepo, gitCfg>>

NoIdentity == [name |-> <<>>, email |-> <<>>]

EmptyWorld ==
    /\ accounts = <<>>
    /\ acctFile = FALSE
    /\ sshDir = FALSE
    /\ cfgExists = FALSE
    /\ cfgText = <<>>
    /\ keyFiles = {}
    /\ remotes = <<>>
    /\ inRepo = FALSE
    /\ gitCfg = [local |-> NoIdentity, global |-> NoIdentity]
    /\ argv = NoArgv
    /\ runs = 0

(***************************************************************************)
(* The codec on its own: Compose(ssh, ...) followed by Decompose           *)
(***************************************************************************)
CodecUsernames == {<<"a", "l">>, <<"a", "-", "b">>, <<"j", ".", "d">>}

CodecHosts == {<<>>, DEFAULT_HOST, <<"g", "l", ".", "i", "o">>, <<"m", "y", "-", "g", "h", "e">>}

CodecOwners == {<<"a", "l">>, <<"o", "r", "g">>}

CodecRepos == {<<"r">>, <<"m", "y", "-", "a", "p", "p">>}

InitCodec ==
    /\ EmptyWorld
    /\ \E u \in CodecUsernames, h \in CodecHosts, o \in CodecOwners, r \in CodecRepos :
         last = [cmd |-> "input", acc |-> Account(u, <<"e">>, h, <<"/", "k">>, <<>>),
                 owner |-> o, repo |-> r]

ComposeSsh ==
    /\ last.cmd = "input"
    /\ last' = [cmd |-> "composed", acc |-> last.acc, owner |-> last.owner,
                repo |-> last.repo, url |-> build_ssh_url(last.acc, last.owner, last.repo)]
    /\ UNCHANGED <<world, argv, runs>>

Decompose ==
    /\ last.cmd = "composed"
    /\ last' = [cmd |-> "decomposed", acc |-> last.acc, owner |-> last.owner,
                repo |-> last.repo, url |-> last.url, parsed |-> parse_remote_url(last.url)]
    /\ UNCHANGED <<world, argv, runs>>

\* the https:// URLs that Decompose is given: with and without a credential,
\* with and without .git, and with one to four parts between the slashes
HttpsCredentials == {<<>>, <<"t", "o", "k", "@">>}

HttpsRemainders == {<<"g", "i", "t", "h", "u", "b", ".", "c", "o", "m">>, <<"g", "i", "t", "h", "u", "b", ".", "c", "o", "m", "/", "o", "r", "g">>, <<"g", "i", "t", "h", "u", "b", ".", "c", "o", "m", "/", "o", "r", "g", "/", "r">>,
                    <<"g", "i", "t", "h", "u", "b", ".", "c", "o", "m", "/", "o", "r", "g", "/", "r", "/", "x">>, <<"g", "l", ".", "i", "o", "/", "a", "l", "/", "m", "y", "-", "a", "p", "p">>}

HttpsSuffixes == {<<>>, DOT_GIT}

HttpsUrls ==
    {HTTPS_SCHEME \o c \o r \o s : c \in HttpsCredentials, r \in HttpsRemainders,
                                   s \in HttpsSuffixes}

DecomposeHttps ==
    /\ last.cmd = "input"
    /\ \E url \in HttpsUrls :
         last' = [cmd |-> "parsed", url |-> url, parsed |-> parse_remote_url(url)]
    /\ UNCHANGED <<world, argv, runs>>

NextCodec == ComposeSsh \/ Decompose \/ DecomposeHttps

SpecCodec == InitCodec /\ [][NextCodec]_vars

\* the host ends in a hyphen followed by a segment without a dot
HyphenDotFreeTail(h) ==
    LET d == RFind(h, <<"-">>) IN d # 0 /\ ~Contains(Tail_from(h, d + 1), <<".">>)

\* C3: for every account whose effective host does not end in a hyphen followed by
\* a dot-free segment, decomposing the composed SSH URL gives back
\* (ssh, effective host, owner, repo)
C3_SshRoundTrip ==
    (last.cmd = "decomposed" /\ ~HyphenDotFreeTail(effective_host(last.acc)))
        => last.parsed = Parsed("ssh", effective_host(last.acc), last.owner, last.repo)

(***************************************************************************)
(* The stanza manager on its own: Upsert and Remove over a config text     *)
(***************************************************************************)
MaxPieces == 3

StanzaAccounts ==
    { Account(<<"a", "l">>, <<"e">>, <<>>, <<>>, <<>>),
      Account(<<"a", "l">>, <<"e">>, DEFAULT_HOST, <<"/", "k">>, <<>>),
      Account(<<"b", "o">>, <<"e">>, <<"g", "l", ".", "i", "o">>, <<"/", "k">>, <<>>) }

StanzaIds == {account_id(a) : a \in StanzaAccounts}

Pieces ==
    {NL, <<"x">>} \cup {StartMarker(id) : id \in StanzaIds} \cup {EndMarker(id) : id \in StanzaIds}

\* every text made of at most n pieces
RECURSIVE Texts(_)
Texts(n) ==
    IF n = 0 THEN {<<>>}
    ELSE LET T == Texts(n - 1) IN T \cup {t \o p : t \in T, p \in Pieces}

InitStanza ==
    /\ accounts = <<>>
    /\ acctFile = FALSE
    /\ sshDir = TRUE
    /\ cfgExists = TRUE
    /\ cfgText \in Texts(MaxPieces)
    /\ keyFiles = {}
    /\ remotes = <<>>
    /\ inRepo = FALSE
    /\ gitCfg = [local |-> NoIdentity, global |-> NoIdentity]
    /\ argv = NoArgv
    /\ runs = 0
    /\ last = [cmd |-> "text"]

UpsertStep ==
    \E a \in StanzaAccounts :
        /\ cfgText' = Upsert(cfgText, a)
        /\ last' = [cmd |-> "upsert", acc |-> a, before |-> cfgText]
        /\ UNCHANGED <<accounts, acctFile, sshDir, cfgExists, keyFiles, remotes, inRepo,
                       gitCfg, argv, runs>>

RemoveStep ==
    \E id \in StanzaIds :
        /\ cfgText' = remove_stanza(cfgText, StartMarker(id), EndMarker(id))
        /\ last' = [cmd |-> "remove", id |-> id, before |-> cfgText]
        /\ UNCHANGED <<accounts, acctFile, sshDir, cfgExists, keyFiles, remotes, inRepo,
                       gitCfg, argv, runs>>

NextStanza == UpsertStep \/ RemoveStep

SpecStanza == InitStanza /\ [][NextStanza]_vars

\* C1: Upsert is idempotent: the text an Upsert of account A has produced is left
\* byte-identical by a further Upsert of A
C1_UpsertIdempotent ==
    last.cmd = "upsert" => Upsert(cfgText, last.acc) = cfgText

\* an Upsert has replaced a stanza that was already in the text
C1_Witness_Replaced ==
    /\ last.cmd = "upsert"
    /\ Contains(last.before, StartMarker(account_id(last.acc)))
    /\ cfgText # last.before
    /\ Upsert(cfgText, last.acc) = cfgText

\* the lines of a text
Lines(text) == SplitOn(text, <<"\n">>)

HasLine(text, line) == \E i \in 1..Len(Lines(text)) : Lines(text)[i] = line

\* C14: an Upsert that finds the account's start marker and an end marker after it
\* gives (the text before the first start marker, at i) + Render(account) + (the
\* text after the first end marker at or after i, at j, less one leading newline)
C14_ReplaceIsLocal ==
    LET t == last.before
        start == StartMarker(account_id(last.acc))
        end == EndMarker(account_id(last.acc))
    IN  (/\ last.cmd = "upsert"
         /\ Contains(t, start)
         /\ Contains(Tail_from(t, Find(t, start)), end)) =>
            LET i == SetMin({k \in 1..(Len(t) - Len(start) + 1) : Occurs(t, start, k)})
                j == SetMin({k \in i..(Len(t) - Len(end) + 1) : Occurs(t, end, k)})
                after0 == Tail_from(t, j + Len(end))
                after == IF after0 # <<>> /\ Head(after0) = "\n" THEN Tail(after0) ELSE after0
            IN  cfgText = SubSeq(t, 1, i - 1) \o make_stanza(last.acc) \o after

\* an Upsert has replaced a stanza that stood between an earlier end marker and
\* further text
C14_Witness_ReplacedInPlace ==
    LET t == last.before
        start == StartMarker(account_id(last.acc))
        end == EndMarker(account_id(last.acc))
    IN  /\ last.cmd = "upsert"
        /\ Contains(t, start)
        /\ Find(t, end) # 0 /\ Find(t, end) < Find(t, start)
        /\ Contains(Tail_from(t, Find(t, start)), end)
        /\ cfgText # t

\* the number of blank lines that end the text p (each line ends with a newline)
TrailingBlankLines(p) ==
    LET ls == Lines(p)
        body == SubSeq(ls, 1, Len(ls) - 1)
        K == {k \in 0..Len(body) : \A i \in (Len(body) - k + 1)..Len(body) : body[i] = <<>>}
    IN  SetMax(K)

\* C15: an Upsert that does not find the start marker leaves the text, less its
\* trailing newlines, then exactly one blank line, then the rendered stanza
C15_AppendOneBlankLine ==
    (last.cmd = "upsert" /\ ~Contains(last.before, StartMarker(account_id(last.acc)))) =>
        LET stanza == make_stanza(last.acc)
            p == SubSeq(cfgText, 1, Len(cfgText) - Len(stanza))
        IN  /\ EndsWith(cfgText, stanza)
            /\ StartsWith(p, TrimEndMatches(last.before, NL))
            /\ TrailingBlankLines(p) = 1

\* C16: markers are whole lines: a text none of whose lines is the account's
\* start marker is taken not to hold its stanza (Upsert appends, Remove leaves the
\* text as it is), and no account's marker occurs in the marker of another
C16_MarkersAreWholeLines ==
    /\ (last.cmd = "upsert" /\ ~HasLine(last.before, StartMarker(account_id(last.acc)))) =>
            cfgText = TrimEndMatches(last.before, NL) \o NL \o NL \o make_stanza(last.acc)
    /\ (last.cmd = "remove" /\ ~HasLine(last.before, StartMarker(last.id))) =>
            cfgText = last.before
    /\ \A a \in StanzaIds, b \in StanzaIds :
            a # b => (~Contains(StartMarker(a), StartMarker(b))
                      /\ ~Contains(EndMarker(a), EndMarker(b)))

\* C17: after an Upsert into a text without the account's marker, Remove gives the
\* text back with its trailing newlines brought to one, and a further
\* Upsert-then-Remove cycle gives that same text again
C17_RemoveDoesNotAccumulate ==
    [][(/\ last.cmd = "upsert"
        /\ ~Contains(last.before, StartMarker(account_id(last.acc)))
        /\ last'.cmd = "remove"
        /\ last'.id = account_id(last.acc)) =>
          /\ cfgText' = TrimEndMatches(last.before, NL) \o NL
          /\ remove_stanza(Upsert(cfgText', last.acc), StartMarker(last'.id), EndMarker(last'.id))
                = cfgText']_vars

\* a Remove has taken a stanza out and left the text ending in one newline
C17_Witness_Removed ==
    /\ last.cmd = "remove"
    /\ Contains(last.before, StartMarker(last.id))
    /\ cfgText # last.before
    /\ Len(cfgText) > 1
    /\ ~Contains(cfgText, StartMarker(last.id))
    /\ cfgText = TrimEndMatches(cfgText, NL) \o NL

\* C24: the result of Upsert(text, A) holds Render(A) as a contiguous block, for
\* every text, one with A's start marker and no end marker after it included
C24_UpsertInstallsStanza ==
    last.cmd = "upsert" => Contains(cfgText, make_stanza(last.acc))

(***************************************************************************)
(* The stanza manager from a config without markers                        *)
(***************************************************************************)
LayoutPieces == {NL, <<"x">>, <<"H", "o", "s", "t", " ", "x">>}

\* every text without markers made of at most n pieces
RECURSIVE LayoutTexts(_)
LayoutTexts(n) ==
    IF n = 0 THEN {<<>>}
    ELSE LET T == LayoutTexts(n - 1) IN T \cup {t \o p : t \in T, p \in LayoutPieces}

InitLayout ==
    /\ accounts = <<>>
    /\ acctFile = FALSE
    /\ sshDir = TRUE
    /\ cfgExists = TRUE
    /\ cfgText \in LayoutTexts(MaxPieces)
    /\ keyFiles = {}
    /\ remotes = <<>>
    /\ inRepo = FALSE
    /\ gitCfg = [local |-> NoIdentity, global |-> NoIdentity]
    /\ argv = NoArgv
    /\ runs = 0
    /\ last = [cmd |-> "text"]

SpecLayout == InitLayout /\ [][NextStanza]_vars

\* the positions at which p occurs in s
Occurrences(s, p) == {i \in 1..(Len(s) - Len(p) + 1) : Occurs(s, p, i)}

\* C26: from a text without markers, after any Upserts and Removes, each account
\* id has at most one start marker and at most one end marker, the start marker
\* stands before the end marker, and no marker of another id lies between them
C26_StanzasAreSequential ==
    \A id \in StanzaIds :
        LET starts == Occurrences(cfgText, StartMarker(id))
            ends == Occurrences(cfgText, EndMarker(id))
        IN  /\ Cardinality(starts) <= 1
            /\ Cardinality(ends) = Cardinality(starts)
            /\ starts # {} =>
                  /\ SetMin(starts) < SetMin(ends)
                  /\ \A other \in StanzaIds \ {id} :
                        \A k \in Occurrences(cfgText, StartMarker(other))
                                   \cup Occurrences(cfgText, EndMarker(other)) :
                            ~(SetMin(starts) < k /\ k < SetMin(ends))

\* the first of two stanzas was replaced in place by an Upsert with another key
C26_Witness_TwoStanzas ==
    /\ last.cmd = "upsert"
    /\ cfgText # last.before
    /\ \A id \in StanzaIds : Contains(last.before, StartMarker(id))
    /\ \E other \in StanzaIds :
          /\ Contains(cfgText, StartMarker(other))
          /\ Find(cfgText, StartMarker(account_id(last.acc))) < Find(cfgText, StartMarker(other))

(***************************************************************************)
(* The codec again: https:// URLs, and the alias shared with the stanza    *)
(***************************************************************************)
\* what is left of an https:// URL once the credential up to and including the
\* first '@' is dropped and the trailing .git is stripped
HttpsRemainder(url) ==
    LET rest0 == Tail_from(url, Len(HTTPS_SCHEME) + 1)
        at == Find(rest0, <<"@">>)
    IN  TrimEndMatches(IF at # 0 THEN Tail_from(rest0, at + 1) ELSE rest0, DOT_GIT)

\* C18: Decompose of an https:// URL succeeds only when the remainder (credential
\* dropped, .git stripped) splits on '/' into exactly three parts, which are then
\* host, owner and repo; with fewer or more parts the URL is NotRecognized
C18_HttpsNeedsExactlyThreeParts ==
    last.cmd = "parsed" =>
        LET parts == SplitOn(HttpsRemainder(last.url), <<"/">>)
        IN  IF Len(parts) = 3
            THEN last.parsed = Parsed("https", parts[1], parts[2], parts[3])
            ELSE last.parsed = NotRecognized

\* the host segment of an SSH URL: what stands between git@ and the first colon
SshHostSegment(url) ==
    LET rest == Tail_from(url, Len(GIT_AT) + 1)
    IN  SubSeq(rest, 1, Find(rest, <<":">>) - 1)

\* C20: the host segment of every composed SSH URL is
\* {effective host}-{username} of the account, it is the Host pattern of the
\* account's rendered stanza, and the HostName of that stanza is the effective host
C20_AliasIsConsistent ==
    last.cmd = "composed" =>
        /\ StartsWith(last.url, GIT_AT)
        /\ SshHostSegment(last.url) = effective_host(last.acc) \o <<"-">> \o last.acc.username
        /\ Lines(make_stanza(last.acc))[2] = <<"H", "o", "s", "t", " ">> \o SshHostSegment(last.url)
        /\ Lines(make_stanza(last.acc))[3] = <<" ", " ", " ", " ", "H", "o", "s", "t", "N", "a", "m", "e", " ">> \o effective_host(last.acc)

C20_Witness_DefaultHostAlias ==
    /\ last.cmd = "composed"
    /\ last.acc.host = <<>>
    /\ SshHostSegment(last.url) = <<"g", "i", "t", "h", "u", "b", ".", "c", "o", "m", "-", "a", "-", "b">>
    /\ HasLine(make_stanza(last.acc), <<"H", "o", "s", "t", " ", "g", "i", "t", "h", "u", "b", ".", "c", "o", "m", "-", "a", "-", "b">>)

(***************************************************************************)
(* commands/use_cmd.rs and main.rs: the identity reconciler                *)
(***************************************************************************)
\* load_accounts: no file, no records
load_accounts == IF acctFile THEN accounts ELSE <<>>

\* set_git_config: the events of one call, and the value it leaves
git_config_events(key, value, scope, dry) ==
    << [op |-> IF dry THEN "dry_git_config" ELSE "git_config",
        key |-> key, value |-> value, scope |-> scope] >>

\* set_remote_url: the events of one call (git remote set-url is taken to succeed)
set_url_events(remote, url, dry) ==
    << [op |-> IF dry THEN "dry_set_url" ELSE "set_url", remote |-> remote, url |-> url] >>

\* git remote: the names of the repository's remotes, in git's order
list_remotes(rs) == [i \in 1..Len(rs) |-> rs[i].name]

\* get_remote_url: the URL git holds for the remote, empty when it holds none
get_remote_url(rs, remote) ==
    LET o == SelectSeq(rs, LAMBDA r : r.name = remote)
    IN  IF o = <<>> THEN <<>> ELSE o[1].url

Outcome(remote, kind, old, new, fallback) ==
    [remote |-> remote, kind |-> kind, old |-> old, new |-> new, fallback |-> fallback]

\* a plausible slip: no fallback, the SSH URL is composed without a key on file
rewrite_without_fallback(acc, remote, url, parsed, force_ssh, force_https) ==
    LET target_fmt == IF force_ssh THEN "ssh"
                      ELSE IF force_https THEN "https" ELSE parsed.fmt
    IN  IF target_fmt = "ssh"
        THEN Outcome(remote, "set", url,
                     build_ssh_url(acc, parsed.owner, parsed.repo), FALSE)
        ELSE Outcome(remote, "set", url,
                     build_https_url(acc.https_token, parsed.host, parsed.owner, parsed.repo),
                     FALSE)

\* lines 70-91 of update_matching_remotes (946-967 of update_remote_origin):
\* the target transport, the fallback and the composed URL of one remote
rewrite(acc, remote, url, parsed, force_ssh, force_https) ==
    LET target_fmt == IF force_ssh THEN "ssh"
                      ELSE IF force_https THEN "https" ELSE parsed.fmt
    IN  IF target_fmt = "ssh" /\ acc.ssh_key # <<>>
        THEN Outcome(remote, "set", url,
                     build_ssh_url(acc, parsed.owner, parsed.repo), FALSE)
        ELSE Outcome(remote, "set", url,
                     build_https_url(acc.https_token, parsed.host, parsed.owner, parsed.repo),
                     target_fmt = "ssh")

\* a plausible slip: every remote with a recognised URL is rewritten
remote_step_every_remote(acc, rs, remote, force_ssh, force_https) ==
    LET r == [name |-> remote, url |-> get_remote_url(rs, remote)]
        parsed == parse_remote_url(r.url)
    IN  IF r.url = <<>> THEN Outcome(r.name, "empty", r.url, r.url, FALSE)
        ELSE IF ~parsed.ok THEN Outcome(r.name, "unrecognised", r.url, r.url, FALSE)
        ELSE rewrite(acc, r.name, r.url, parsed, force_ssh, force_https)

\* one iteration of the loop of update_matching_remotes
remote_step(acc, rs, remote, force_ssh, force_https) ==
    LET r == [name |-> remote, url |-> get_remote_url(rs, remote)]
        parsed == parse_remote_url(r.url)
        is_origin == r.name = "origin"
        matches_identity_remote ==
            parsed.host = effective_host(acc) /\ parsed.owner = acc.username
        already_on_identity_alias ==
            StartsWith(r.url, GIT_AT \o ssh_host_alias(acc) \o <<":">>)
    IN  IF r.url = <<>> THEN Outcome(r.name, "empty", r.url, r.url, FALSE)
        ELSE IF ~parsed.ok THEN Outcome(r.name, "unrecognised", r.url, r.url, FALSE)
        ELSE IF ~is_origin /\ ~matches_identity_remote /\ ~already_on_identity_alias
        THEN Outcome(r.name, "not_candidate", r.url, r.url, FALSE)
        ELSE rewrite(acc, r.name, r.url, parsed, force_ssh, force_https)

\* a plausible slip: return instead of continue at a remote that is empty or
\* not recognised, as update_remote_origin of main.rs does for its one remote
RECURSIVE matching_remotes_loop_returns(_, _, _, _, _)
matching_remotes_loop_returns(acc, rs, force_ssh, force_https, i) ==
    IF i > Len(list_remotes(rs)) THEN <<>>
    ELSE LET o == remote_step(acc, rs, list_remotes(rs)[i], force_ssh, force_https)
         IN  IF o.kind \in {"empty", "unrecognised"} THEN <<o>>
             ELSE <<o>> \o matching_remotes_loop_returns(acc, rs, force_ssh, force_https, i + 1)

\* the loop of update_matching_remotes over rs[i..]: one outcome per remote
RECURSIVE matching_remotes_loop(_, _, _, _, _)
matching_remotes_loop(acc, rs, force_ssh, force_https, i) ==
    IF i > Len(list_remotes(rs)) THEN <<>>
    ELSE <<remote_step(acc, rs, list_remotes(rs)[i], force_ssh, force_https)>>
         \o matching_remotes_loop(acc, rs, force_ssh, force_https, i + 1)

\* what one outcome prints and runs
outcome_events(o, dry) ==
    IF o.kind = "unrecognised" THEN << [op |-> "warn", what |-> "unrecognised", remote |-> o.remote] >>
    ELSE IF o.kind = "set"
    THEN (IF o.fallback THEN << [op |-> "warn", what |-> "fallback", remote |-> o.remote] >>
          ELSE <<>>) \o set_url_events(o.remote, o.new, dry)
    ELSE <<>>

RECURSIVE outcomes_events(_, _, _)
outcomes_events(os, dry, i) ==
    IF i > Len(os) THEN <<>>
    ELSE outcome_events(os[i], dry) \o outcomes_events(os, dry, i + 1)

\* the remotes after the set-url calls of the outcomes os (os[i] is about rs[i])
apply_outcomes(rs, os, dry) ==
    [i \in 1..Len(rs) |->
        IF ~dry /\ \E j \in 1..Len(os) : os[j].remote = rs[i].name /\ os[j].kind = "set"
        THEN [name |-> rs[i].name,
              url |-> (CHOOSE o \in {os[j] : j \in 1..Len(os)} :
                          o.remote = rs[i].name /\ o.kind = "set").new]
        ELSE rs[i]]

\* update_matching_remotes: [exit, outcomes]; exit 2 is its die
update_matching_remotes(acc, rs, force_ssh, force_https) ==
    IF list_remotes(rs) = <<>> THEN [exit |-> 0, outcomes |-> <<>>]
    ELSE IF force_ssh /\ force_https THEN [exit |-> 2, outcomes |-> <<>>]
    ELSE [exit |-> 0, outcomes |-> matching_remotes_loop(acc, rs, force_ssh, force_https, 1)]

\* update_remote_origin of main.rs: [exit, outcomes]
update_remote_origin(acc, rs, force_ssh, force_https) ==
    LET url == get_remote_url(rs, "origin")
        parsed == parse_remote_url(url)
    IN  IF url = <<>>
        THEN [exit |-> 0, outcomes |-> <<Outcome("origin", "empty", url, url, FALSE)>>]
        ELSE IF ~parsed.ok
        THEN [exit |-> 0, outcomes |-> <<Outcome("origin", "unrecognised", url, url, FALSE)>>]
        ELSE IF force_ssh /\ force_https THEN [exit |-> 2, outcomes |-> <<>>]
        ELSE [exit |-> 0,
              outcomes |-> <<rewrite(acc, "origin", url, parsed, force_ssh, force_https)>>]

\* cmd_use, with the reconciler it calls given as variant ("all" is
\* commands/use_cmd.rs, "origin" is main.rs)
cmd_use(variant, key, global, force_ssh, force_https, dry) ==
    LET found == find_account(load_accounts, key)
        acc == found.acc
        scope == IF global THEN "global" ELSE "local"
        identity == git_config_events(<<"u", "s", "e", "r", ".", "n", "a", "m", "e">>, acc.username, scope, dry)
                    \o git_config_events(<<"u", "s", "e", "r", ".", "e", "m", "a", "i", "l">>, acc.email, scope, dry)
        rec == IF variant = "all"
               THEN update_matching_remotes(acc, remotes, force_ssh, force_https)
               ELSE update_remote_origin(acc, remotes, force_ssh, force_https)
        report(exit, events, outcomes) ==
            [cmd |-> "use", dry |-> dry, lookup |-> found, exit |-> exit,
             events |-> events, outcomes |-> outcomes, before |-> remotes]
    IN  IF found.kind # "found"
        THEN /\ last' = report(2, <<>>, <<>>)
             /\ UNCHANGED world
        ELSE IF scope = "local" /\ ~inRepo
        THEN /\ last' = report(2, <<>>, <<>>)
             /\ UNCHANGED world
        ELSE /\ gitCfg' = IF dry THEN gitCfg
                          ELSE [gitCfg EXCEPT ![scope] = [name |-> acc.username, email |-> acc.email]]
             /\ IF scope = "local"
                THEN /\ remotes' = apply_outcomes(remotes, rec.outcomes, dry)
                     /\ last' = report(rec.exit, identity \o outcomes_events(rec.outcomes, dry, 1),
                                       rec.outcomes)
                ELSE /\ remotes' = remotes
                     /\ last' = report(0, identity, <<>>)
             /\ UNCHANGED <<accounts, acctFile, sshDir, cfgExists, cfgText, keyFiles, inRepo>>

(***************************************************************************)
(* The reconciler: git-id use over a directory and a repository            *)
(***************************************************************************)
MaxRemotes == 2

MaxRuns == 2

RemoteNames == <<"origin", "upstream", "fork", "mirror">>

UseAccounts ==
    { Account(<<"a", "l">>, <<"e">>, <<>>, <<>>, <<"t">>),
      Account(<<"a", "l">>, <<"e">>, <<"g", "l", ".", "i", "o">>, <<"/", "k">>, <<>>),
      Account(<<"b", "o">>, <<"e">>, DEFAULT_HOST, <<"/", "k">>, <<"t", "@", "k">>) }

\* the directories: up to two of the accounts, in either order
UseDirectories ==
    {<<>>} \cup {<<a>> : a \in UseAccounts}
           \cup {d \in UseAccounts \X UseAccounts : d[1] # d[2]}

UseKeys == {<<"a", "l">>, <<"b", "o">>, <<"a", "l", "@", "g", "i", "t", "h", "u", "b", ".", "c", "o", "m">>, <<"a", "l", "@", "g", "l", ".", "i", "o">>}

UseUrls ==
    { <<>>,
      <<"/", "s", "r", "v", "/", "r", ".", "g", "i", "t">>,
      <<"g", "i", "t", "@", "g", "i", "t", "h", "u", "b", ".", "c", "o", "m", ":", "a", "l", "/", "r", ".", "g", "i", "t">>,
      <<"h", "t", "t", "p", "s", ":", "/", "/", "x", "@", "g", "i", "t", "h", "u", "b", ".", "c", "o", "m", "/", "o", "r", "g", "/", "r", ".", "g", "i", "t">>,
      <<"g", "i", "t", "@", "g", "l", ".", "i", "o", "-", "a", "l", ":", "o", "r", "g", "/", "r", ".", "g", "i", "t">> }

RemoteLists ==
    UNION { { [i \in 1..n |-> [name |-> RemoteNames[i], url |-> u[i]]] : u \in [1..n -> UseUrls] }
            : n \in 0..MaxRemotes }

UseArgvs ==
    [cmd : {"use"}, variant : {"all", "origin"}, key : UseKeys, global : BOOLEAN,
     force_ssh : BOOLEAN, force_https : BOOLEAN, dry : BOOLEAN]

InitUse ==
    /\ accounts \in UseDirectories
    /\ acctFile = TRUE
    /\ sshDir = TRUE
    /\ cfgExists = FALSE
    /\ cfgText = <<>>
    /\ keyFiles = {}
    /\ inRepo \in BOOLEAN
    /\ remotes \in (IF inRepo THEN RemoteLists ELSE {<<>>})
    /\ gitCfg = [local |-> NoIdentity, global |-> NoIdentity]
    /\ argv \in UseArgvs
    /\ runs = 0
    /\ last = [cmd |-> "none"]

\* git-id use of commands/use_cmd.rs
CmdUse ==
    /\ argv.cmd = "use" /\ argv.variant = "all"
    /\ runs < MaxRuns
    /\ cmd_use("all", argv.key, argv.global, argv.force_ssh, argv.force_https, argv.dry)
    /\ runs' = runs + 1
    /\ argv' = argv

\* git-id use of main.rs
CmdUseOrigin ==
    /\ argv.cmd = "use" /\ argv.variant = "origin"
    /\ runs < MaxRuns
    /\ cmd_use("origin", argv.key, argv.global, argv.force_ssh, argv.force_https, argv.dry)
    /\ runs' = runs + 1
    /\ argv' = argv

NextUse == CmdUse \/ CmdUseOrigin

SpecUse == InitUse /\ [][NextUse]_vars

(***************************************************************************)
(* Claims about the reconciler                                             *)
(***************************************************************************)
EventsOf(remote) == {e \in {last.events[i] : i \in 1..Len(last.events)} :
                        e.op \in {"warn", "set_url", "dry_set_url"} /\ e.remote = remote}

UrlOf(rs, name) == (CHOOSE r \in {rs[i] : i \in 1..Len(rs)} : r.name = name).url

Mutating(e) == e.op \in {"git_config", "set_url"}

\* C2: a second run of use with identical inputs leaves every remote URL as the
\* first run set it
C2_UseIdempotent ==
    (last.cmd = "use" /\ ~last.dry /\ runs >= 2)
        => \A i \in 1..Len(last.outcomes) : last.outcomes[i].new = last.outcomes[i].old

\* C4: a key without '@' is looked up by username over all hosts: no match is
\* NotFound, one match is that account, several are the ambiguity error (exit 2)
\* whose hints are the ids of exactly the matching accounts
C4_BareUsernameLookup ==
    (last.cmd = "use" /\ ~Contains(argv.key, <<"@">>)) =>
        LET m == SelectSeq(accounts, LAMBDA a : a.username = argv.key)
            ids == {<<"'">> \o account_id(m[i]) \o <<"'">> : i \in 1..Len(m)}
            hints == {last.lookup.hints[i] : i \in 1..Len(last.lookup.hints)}
        IN  /\ Len(m) = 0 => (last.lookup.kind = "notfound" /\ last.exit = 2)
            /\ Len(m) = 1 => (last.lookup.kind = "found" /\ last.lookup.acc = m[1])
            /\ Len(m) >= 2 => (last.lookup.kind = "ambiguous" /\ last.exit = 2 /\ hints = ids)

\* a bare username that two accounts carry has been looked up
C4_Witness_Ambiguous ==
    /\ last.cmd = "use"
    /\ ~Contains(argv.key, <<"@">>)
    /\ last.lookup.kind = "ambiguous"
    /\ Len(last.lookup.hints) = 2
    /\ last.lookup.hints[1] # last.lookup.hints[2]

\* C5: a key username@host finds the account with that username whose effective
\* host is host, and is NotFound only when there is none
C5_QualifiedLookup ==
    (last.cmd = "use" /\ Contains(argv.key, <<"@">>)) =>
        LET at == Find(argv.key, <<"@">>)
            u == SubSeq(argv.key, 1, at - 1)
            h == Tail_from(argv.key, at + 1)
            m == SelectSeq(accounts, LAMBDA a : a.username = u /\ effective_host(a) = h)
        IN  IF m = <<>> THEN last.lookup.kind = "notfound"
            ELSE /\ last.lookup.kind = "found"
                 /\ last.lookup.acc.username = u
                 /\ effective_host(last.lookup.acc) = h

\* C7: use with both --ssh and --https exits 2 and has set neither user.name,
\* user.email nor any remote URL, in either scope, with or without remotes
C7_ConflictingFlagsFailFast ==
    (last.cmd = "use" /\ argv.force_ssh /\ argv.force_https) =>
        /\ last.exit = 2
        /\ \A i \in 1..Len(last.events) : ~Mutating(last.events[i])
        /\ gitCfg = [local |-> NoIdentity, global |-> NoIdentity]

\* the transport a remote is to get before the fallback: forced, or its current one
TargetTransport(url) ==
    IF argv.force_ssh THEN "ssh"
    ELSE IF argv.force_https THEN "https" ELSE parse_remote_url(url).fmt

\* the outcome o is about a remote that is processed
Processed(o) ==
    \/ o.kind = "set"
    \/ o.remote = "origin" /\ o.old # <<>> /\ parse_remote_url(o.old).ok

\* C9: a processed remote whose target transport is ssh, for an account without
\* ssh_key, is set to the HTTPS URL of its decomposed host/owner/repo and the
\* account token, with a warning, and the command exits 0
C9_SshFallback ==
    last.cmd = "use" =>
        \A i \in 1..Len(last.outcomes) :
            LET o == last.outcomes[i]
                p == parse_remote_url(UrlOf(last.before, o.remote))
                acc == last.lookup.acc
            IN  (Processed(o) /\ TargetTransport(o.old) = "ssh" /\ acc.ssh_key = <<>>) =>
                    /\ o.kind = "set"
                    /\ o.new = build_https_url(acc.https_token, p.host, p.owner, p.repo)
                    /\ \E e \in EventsOf(o.remote) : e.op = "warn" /\ e.what = "fallback"
                    /\ \E e \in EventsOf(o.remote) :
                          e.op = (IF last.dry THEN "dry_set_url" ELSE "set_url") /\ e.url = o.new
                    /\ ~last.dry => UrlOf(remotes, o.remote) = o.new
                    /\ last.exit = 0

\* --ssh was forced on an SSH-less account and the remote went from SSH to HTTPS
C9_Witness_Fallback ==
    /\ last.cmd = "use"
    /\ ~last.dry
    /\ argv.force_ssh
    /\ last.lookup.acc.ssh_key = <<>>
    /\ \E i \in 1..Len(last.outcomes) :
          /\ last.outcomes[i].kind = "set"
          /\ StartsWith(last.outcomes[i].old, GIT_AT)
          /\ StartsWith(UrlOf(remotes, last.outcomes[i].remote), HTTPS_SCHEME)

\* a remote that the all-remotes reconciler is to process for acc
IsCandidate(acc, name, url) ==
    LET p == parse_remote_url(url)
    IN  /\ url # <<>>
        /\ p.ok
        /\ \/ name = "origin"
           \/ p.host = effective_host(acc) /\ p.owner = acc.username
           \/ StartsWith(url, GIT_AT \o ssh_host_alias(acc) \o <<":">>)

\* C10: in the all-remotes reconciler a remote with an empty URL is skipped
\* silently, one with an unrecognised URL is skipped with a warning and keeps its
\* URL, every other candidate is still processed, and the command exits 0
C10_BadRemoteDoesNotBlock ==
    (/\ last.cmd = "use" /\ argv.variant = "all" /\ last.lookup.kind = "found"
     /\ ~argv.global /\ inRepo /\ ~(argv.force_ssh /\ argv.force_https)) =>
        /\ last.exit = 0
        /\ \A i \in 1..Len(last.before) :
              LET r == last.before[i]
                  now == remotes[i]
                  ev == EventsOf(r.name)
              IN  /\ r.url = <<>> => (now = r /\ ev = {})
                  /\ (r.url # <<>> /\ ~parse_remote_url(r.url).ok) =>
                        /\ now = r
                        /\ \E e \in ev : e.op = "warn" /\ e.what = "unrecognised"
                        /\ \A e \in ev : e.op = "warn"
                  /\ IsCandidate(last.lookup.acc, r.name, r.url) =>
                        \E e \in ev : e.op \in {"set_url", "dry_set_url"}

\* an unrecognised or empty remote came first and a later remote was still set
C10_Witness_LaterRemoteSet ==
    /\ last.cmd = "use" /\ argv.variant = "all" /\ ~last.dry
    /\ Len(last.before) >= 2
    /\ \E i \in 1..Len(last.before), j \in 1..Len(last.before) :
          /\ i < j
          /\ last.before[i].url # <<>>
          /\ ~parse_remote_url(last.before[i].url).ok
          /\ last.before[j].url # remotes[j].url

\* C11: a remote whose composed URL equals its current URL gets no set-url: the
\* outcome is "unchanged", and neither git remote set-url nor its preview is issued
C11_UnchangedUrlNotSet ==
    last.cmd = "use" =>
        \A i \in 1..Len(last.outcomes) :
            LET o == last.outcomes[i]
            IN  (o.kind \in {"set", "unchanged"} /\ o.new = o.old) =>
                    /\ o.kind = "unchanged"
                    /\ \A e \in EventsOf(o.remote) : e.op \notin {"set_url", "dry_set_url"}

\* C19: a processed remote whose target transport is https is set to
\* https://{token}@{host}/{owner}/{repo}.git when the account token is non-empty
\* and to https://{host}/{owner}/{repo}.git when it is empty, with host, owner and
\* repo decomposed from its current URL, whose credential is discarded; an https
\* remote with no forced transport stays https
C19_HttpsRewrite ==
    last.cmd = "use" =>
        \A i \in 1..Len(last.outcomes) :
            LET o == last.outcomes[i]
                p == parse_remote_url(o.old)
                acc == last.lookup.acc
                credential == IF acc.https_token # <<>> THEN acc.https_token \o <<"@">>
                              ELSE <<>>
            IN  ((Processed(o) \/ (argv.variant = "all" /\ IsCandidate(acc, o.remote, o.old)))
                   /\ TargetTransport(o.old) = "https") =>
                    /\ o.kind = "set"
                    /\ o.new = HTTPS_SCHEME \o credential \o p.host \o <<"/">> \o p.owner
                                  \o <<"/">> \o p.repo \o DOT_GIT
                    /\ \E e \in EventsOf(o.remote) :
                          e.op = (IF last.dry THEN "dry_set_url" ELSE "set_url") /\ e.url = o.new
                    /\ ~last.dry => UrlOf(remotes, o.remote) = o.new

\* an https remote with an embedded credential was rewritten, transport unforced:
\* once by an account with a token and once by an account without one
C19_Witness_CredentialReplaced ==
    /\ last.cmd = "use"
    /\ ~last.dry
    /\ ~argv.force_ssh /\ ~argv.force_https
    /\ last.lookup.acc.https_token = <<"t">>
    /\ \E i \in 1..Len(last.outcomes) :
          /\ last.outcomes[i].old = <<"h", "t", "t", "p", "s", ":", "/", "/", "x", "@", "g", "i", "t", "h", "u", "b", ".", "c", "o", "m", "/", "o", "r", "g", "/", "r", ".", "g", "i", "t">>
          /\ last.outcomes[i].new = <<"h", "t", "t", "p", "s", ":", "/", "/", "t", "@", "g", "i", "t", "h", "u", "b", ".", "c", "o", "m", "/", "o", "r", "g", "/", "r", ".", "g", "i", "t">>
          /\ UrlOf(remotes, last.outcomes[i].remote) = <<"h", "t", "t", "p", "s", ":", "/", "/", "t", "@", "g", "i", "t", "h", "u", "b", ".", "c", "o", "m", "/", "o", "r", "g", "/", "r", ".", "g", "i", "t">>

\* C28: when a bare username is ambiguous, every key 'username@host' of the
\* ambiguity message, passed back to find_account, finds exactly the account the
\* hint was made from
C28_HintsAreUsable ==
    (last.cmd = "use" /\ last.lookup.kind = "ambiguous") =>
        LET matches == SelectSeq(load_accounts, LAMBDA a : a.username = argv.key)
        IN  \A i \in 1..Len(last.lookup.hints) :
                LET hint == last.lookup.hints[i]
                    key == SubSeq(hint, 2, Len(hint) - 1)
                    again == find_account(load_accounts, key)
                IN  again.kind = "found" /\ again.acc = matches[i]

\* C29: in the all-remotes reconciler origin is always a candidate, and a remote
\* other than origin whose decomposed (host, owner) is not (effective host,
\* username) of the account and whose URL does not start with git@{alias}: keeps
\* its URL and gets no set-url, whatever the forced transport
C29_OnlyCandidatesAreModified ==
    (last.cmd = "use" /\ argv.variant = "all" /\ last.lookup.kind = "found") =>
        \A i \in 1..Len(last.before) :
            LET r == last.before[i]
                p == parse_remote_url(r.url)
                acc == last.lookup.acc
                qualifies ==
                    \/ p.ok /\ p.host = effective_host(acc) /\ p.owner = acc.username
                    \/ StartsWith(r.url, GIT_AT \o effective_host(acc) \o <<"-">> \o acc.username
                                           \o <<":">>)
                set_urls == {e \in EventsOf(r.name) : e.op \in {"set_url", "dry_set_url"}}
            IN  /\ (r.name # "origin" /\ ~qualifies) =>
                      (remotes[i] = r /\ set_urls = {})
                /\ (r.name = "origin" /\ p.ok /\ ~argv.global /\ last.exit = 0) =>
                      set_urls # {}

\* --https was forced: origin was rewritten, and a remote that is not the account's
\* own kept its recognised SSH URL
C29_Witness_OtherRemoteKept ==
    /\ last.cmd = "use" /\ argv.variant = "all" /\ ~last.dry
    /\ argv.force_https
    /\ Len(last.before) = 2
    /\ last.before[1].name = "origin" /\ remotes[1].url # last.before[1].url
    /\ last.before[2].name # "origin" /\ remotes[2].url = last.before[2].url
    /\ parse_remote_url(last.before[2].url).fmt = "ssh"

(***************************************************************************)
(* Paths (std::path) and the files of one invocation                       *)
(***************************************************************************)
\* $HOME of the session
HOME == <<"/", "h">>

\* ssh_dir()
ssh_dir == HOME \o <<"/", ".", "s", "s", "h">>

default_key_path(username) == ssh_dir \o <<"/", "i", "d", "_", "e", "d", "2", "5", "5", "1", "9", "_">> \o username

\* the position of the '.' that starts the extension of path's file name, 0 when it
\* has none (Path::extension: no dot, or only a leading dot, is no extension)
ExtensionDot(path) ==
    LET slash == RFind(path, <<"/">>)
        name == Tail_from(path, slash + 1)
        dot == RFind(name, <<".">>)
    IN  IF dot <= 1 THEN 0 ELSE slash + dot

\* Path::extension, <<>> for None
extension(path) ==
    IF ExtensionDot(path) = 0 THEN <<>> ELSE Tail_from(path, ExtensionDot(path) + 1)

\* PathBuf::with_extension
with_extension(path, ext) ==
    LET stem == IF ExtensionDot(path) = 0 THEN path ELSE SubSeq(path, 1, ExtensionDot(path) - 1)
    IN  IF ext = <<>> THEN stem ELSE stem \o <<".">> \o ext

\* the state one invocation works on: the files, what it has done so far, and its
\* exit code (Running until it returns or dies)
Running == 0 - 1

Proc(accts, af, sd, ce, ct, kf) ==
    [accounts |-> accts, acctFile |-> af, sshDir |-> sd, cfgExists |-> ce, cfgText |-> ct,
     keyFiles |-> kf, events |-> <<>>, exit |-> Running]

Start == Proc(accounts, acctFile, sshDir, cfgExists, cfgText, keyFiles)

Ev(st, e) == [st EXCEPT !.events = Append(@, e)]

\* ui::die
die(st, code) == [st EXCEPT !.exit = code]

\* a normal return of the command
finish(st) == IF st.exit = Running THEN [st EXCEPT !.exit = 0] ELSE st

exists(st, path) == \E f \in st.keyFiles : f.path = path

\* fs::set_permissions on a key file
chmod(st, path, mode) ==
    Ev([st EXCEPT !.keyFiles = {IF f.path = path THEN [path |-> path, mode |-> mode] ELSE f
                                : f \in @}],
       [op |-> "chmod", file |-> path, mode |-> mode])

\* ui::backup: the copy is attempted when the file exists
backup(st, file, there) ==
    IF there THEN Ev(st, [op |-> "backup", file |-> file]) ELSE st

(***************************************************************************)
(* config.rs: the record store                                             *)
(***************************************************************************)
ensure_accounts_file(st) ==
    IF st.acctFile THEN st
    ELSE Ev([st EXCEPT !.acctFile = TRUE, !.accounts = <<>>],
            [op |-> "write", file |-> "accounts.toml"])

\* a plausible slip: the file is written without the backup
save_accounts_no_backup(st, accts, dry) ==
    IF st.exit # Running \/ dry THEN st
    ELSE Ev([st EXCEPT !.acctFile = TRUE, !.accounts = accts],
            [op |-> "write", file |-> "accounts.toml"])

save_accounts(st, accts, dry) ==
    IF st.exit # Running \/ dry THEN st
    ELSE Ev([backup(st, "accounts.toml", st.acctFile) EXCEPT !.acctFile = TRUE, !.accounts = accts],
            [op |-> "write", file |-> "accounts.toml"])

(***************************************************************************)
(* ssh.rs: keys and the config file                                        *)
(***************************************************************************)
\* the lines of update_ssh_config and gen_ssh_key that create ~/.ssh
create_ssh_dir(st) ==
    IF st.sshDir THEN st
    ELSE Ev([st EXCEPT !.sshDir = TRUE], [op |-> "mkdir", file |-> "~/.ssh"])

update_ssh_config(st, accts, dry) ==
    LET s1 == create_ssh_dir(st)
        existing == IF s1.cfgExists THEN s1.cfgText ELSE <<>>
        new == UpsertAll(existing, accts, 1)
        s2 == backup(s1, "config", s1.cfgExists)
        s3 == Ev([s2 EXCEPT !.cfgExists = TRUE, !.cfgText = new], [op |-> "write", file |-> "config"])
    IN  IF st.exit # Running THEN st
        ELSE IF dry THEN s1
        ELSE Ev(s3, [op |-> "chmod", file |-> "config", mode |-> "600"])

add_key_to_agent(st, key, dry) ==
    IF st.exit # Running THEN st
    ELSE IF ~exists(st, key) THEN Ev(st, [op |-> "warn", what |-> "no key for ssh-add"])
    ELSE IF dry THEN st
    ELSE Ev(st, [op |-> "ssh-add", file |-> key])

fix_key_permissions(st, key) ==
    LET s1 == IF exists(st, key) THEN chmod(st, key, "600") ELSE st
        pub_key == with_extension(key, <<"p", "u", "b">>)
    IN  IF st.exit # Running THEN st
        ELSE IF exists(s1, pub_key) THEN chmod(s1, pub_key, "644") ELSE s1

\* ssh-keygen -f key, when it succeeds: the private key and key.pub beside it
ssh_keygen(st, key) ==
    Ev([st EXCEPT !.keyFiles = {f \in @ : f.path \notin {key, key \o <<".", "p", "u", "b">>}}
                                \cup {[path |-> key, mode |-> "600"],
                                      [path |-> key \o <<".", "p", "u", "b">>, mode |-> "644"]}],
       [op |-> "ssh-keygen", file |-> key])

\* a plausible slip: the exit status of ssh-keygen is not looked at
gen_ssh_key_ignores_failure(st, username, dry, keygen_ok) ==
    LET key == default_key_path(username)
        s1 == create_ssh_dir(st)
    IN  IF st.exit # Running THEN [st |-> st, key |-> key]
        ELSE IF exists(st, key)
        THEN [st |-> Ev(st, [op |-> "warn", what |-> "key exists"]), key |-> key]
        ELSE IF dry \/ ~keygen_ok THEN [st |-> s1, key |-> key]
        ELSE [st |-> add_key_to_agent(chmod(ssh_keygen(s1, key), key, "600"), key, FALSE),
              key |-> key]

\* a plausible slip: no look for a key that is already at the default path
gen_ssh_key_overwrites(st, username, dry, keygen_ok) ==
    LET key == default_key_path(username)
        s1 == create_ssh_dir(st)
    IN  IF st.exit # Running THEN [st |-> st, key |-> key]
        ELSE IF dry THEN [st |-> s1, key |-> key]
        ELSE IF ~keygen_ok THEN [st |-> die(s1, 1), key |-> key]
        ELSE [st |-> add_key_to_agent(chmod(ssh_keygen(s1, key), key, "600"), key, FALSE),
              key |-> key]

\* gen_ssh_key: [st, key]; keygen_ok is whether ssh-keygen runs and exits 0
gen_ssh_key(st, username, dry, keygen_ok) ==
    LET key == default_key_path(username)
        s1 == create_ssh_dir(st)
        s2 == ssh_keygen(s1, key)
        s3 == chmod(s2, key, "600")
        pub_key == with_extension(key, <<"p", "u", "b">>)
        s4 == IF exists(s3, pub_key) THEN chmod(s3, pub_key, "644") ELSE s3
    IN  IF st.exit # Running THEN [st |-> st, key |-> key]
        ELSE IF exists(st, key)
        THEN [st |-> Ev(st, [op |-> "warn", what |-> "key exists"]), key |-> key]
        ELSE IF dry THEN [st |-> s1, key |-> key]
        ELSE IF ~keygen_ok THEN [st |-> die(s1, 1), key |-> key]
        ELSE [st |-> add_key_to_agent(s4, key, FALSE), key |-> key]

\* the ~/.ssh/*.pub files that the pickers list
pub_files(st) ==
    IF st.sshDir THEN {f.path : f \in {g \in st.keyFiles : extension(g.path) = <<"p", "u", "b">>}} ELSE {}

(***************************************************************************)
(* commands/add.rs                                                         *)
(***************************************************************************)
REMOTE_SSH == <<"s", "s", "h", " ", "-", " ", "u", "s", "e", " ", "S", "S", "H", " ", "k", "e", "y", "s", " ", "(", "r", "e", "c", "o", "m", "m", "e", "n", "d", "e", "d", ")">>

REMOTE_HTTPS == <<"h", "t", "t", "p", "s", " ", "-", " ", "u", "s", "e", " ", "p", "e", "r", "s", "o", "n", "a", "l", " ", "a", "c", "c", "e", "s", "s", " ", "t", "o", "k", "e", "n">>

REMOTE_BOTH == <<"b", "o", "t", "h", " ", "-", " ", "c", "o", "n", "f", "i", "g", "u", "r", "e", " ", "S", "S", "H", " ", "a", "n", "d", " ", "H", "T", "T", "P", "S">>

\* pick_existing_ssh_key: [st, key]; ans.pub is the file picked, ans.yn the answer
\* to "Generate a new ed25519 key instead?"
pick_existing_ssh_key(st, username, dry, ans) ==
    LET priv_key == with_extension(ans.pub, <<>>)
    IN  IF pub_files(st) = {}
        THEN gen_ssh_key(Ev(st, [op |-> "warn", what |-> "no pub files"]), username, dry,
                         ans.keygen_ok)
        ELSE IF ~exists(st, priv_key)
        THEN IF ans.yn
             THEN gen_ssh_key(Ev(st, [op |-> "warn", what |-> "no private key"]), username, dry,
                              ans.keygen_ok)
             ELSE [st |-> die(Ev(st, [op |-> "warn", what |-> "no private key"]), 2),
                   key |-> <<>>]
        ELSE [st |-> add_key_to_agent(fix_key_permissions(st, priv_key), priv_key, dry),
              key |-> priv_key]

\* setup_ssh_key: [st, key]
setup_ssh_key(st, username, dry, ans) ==
    IF ans.key_setup = "gen"
    THEN gen_ssh_key(st, username, dry, ans.keygen_ok)
    ELSE pick_existing_ssh_key(st, username, dry, ans)

\* cmd_add, lines 84-86: the SSH config is written when a key was set up
add_ssh_config(st, all, key, dry) ==
    IF key # <<>> THEN update_ssh_config(st, all, dry) ELSE st

\* cmd_add, lines 74-86: the record is pushed, the file saved, the SSH config written
add_account(loaded, setup, dry, ans) ==
    LET use_https == Contains(ans.remote_choice, <<"h", "t", "t", "p", "s">>) \/ Contains(ans.remote_choice, <<"b", "o", "t", "h">>)
        acc == Account(ans.username, ans.email, ans.host, setup.key,
                       IF use_https THEN ans.token ELSE <<>>)
    IN  add_ssh_config(save_accounts(setup.st, Append(loaded, acc), dry),
                       Append(loaded, acc), setup.key, dry)

\* cmd_add, lines 10-94: from load_accounts on; s1 is the state after line 9
add_prompted(s1, dry, ans) ==
    LET loaded == s1.accounts
        use_ssh == Contains(ans.remote_choice, <<"s", "s", "h">>) \/ Contains(ans.remote_choice, <<"b", "o", "t", "h">>)
    IN  IF ans.abort THEN die(s1, 2)
        ELSE IF \E i \in 1..Len(loaded) :
                   loaded[i].username = ans.username /\ loaded[i].host = ans.host
        THEN die(s1, 2)
        ELSE finish(add_account(loaded,
                                IF use_ssh THEN setup_ssh_key(s1, ans.username, dry, ans)
                                ELSE [st |-> s1, key |-> <<>>],
                                dry, ans))

\* cmd_add: the state the invocation ends in; ans holds what the user answers
cmd_add(st0, dry, ans) == add_prompted(ensure_accounts_file(st0), dry, ans)

(***************************************************************************)
(* commands/ssh.rs                                                         *)
(***************************************************************************)
cmd_ssh_config(st0, dry) ==
    LET loaded == IF st0.acctFile THEN st0.accounts ELSE <<>>
    IN  IF loaded = <<>> THEN finish(st0)
        ELSE finish(update_ssh_config(st0, loaded, dry))

(***************************************************************************)
(* The directory commands over the files of one user                       *)
(***************************************************************************)
MaxCmds == 2

Report(cmd, dry, st, ans) ==
    [cmd |-> cmd, dry |-> dry, exit |-> st.exit, events |-> st.events, ans |-> ans,
     before |-> accounts]

\* the invocation has ended in st: what it leaves on disk, and what it reported
Leaves(cmd, dry, st, ans) ==
    /\ accounts' = st.accounts
    /\ acctFile' = st.acctFile
    /\ sshDir' = st.sshDir
    /\ cfgExists' = st.cfgExists
    /\ cfgText' = st.cfgText
    /\ keyFiles' = st.keyFiles
    /\ last' = Report(cmd, dry, st, ans)

AddUsernames == {<<"a", "l">>, <<"j", ".", "d">>}

AddHosts == {DEFAULT_HOST, <<"g", "l", ".", "i", "o">>}

\* the answers to the prompts of add; an abort is taken with the other answers fixed
AddAnswers(pubs, dry) ==
    LET full == [abort : {FALSE}, username : AddUsernames, host : AddHosts, email : {<<"e">>},
                 remote_choice : {REMOTE_SSH, REMOTE_HTTPS, REMOTE_BOTH},
                 key_setup : {"gen", "pick"}, pub : pubs \cup {<<>>}, yn : BOOLEAN,
                 keygen_ok : BOOLEAN, token : {<<>>, <<"t">>}]
        \* answers that are never asked for are kept at one value
        asked(a) ==
            /\ (a.remote_choice = REMOTE_HTTPS) =>
                  (a.key_setup = "gen" /\ a.pub = <<>> /\ ~a.yn /\ a.keygen_ok)
            /\ (a.remote_choice = REMOTE_SSH) <=> (a.token = <<>>)
            /\ dry => a.keygen_ok
            /\ (a.key_setup = "gen") => (a.pub = <<>> /\ ~a.yn)
            /\ (a.key_setup = "pick" /\ pubs # {}) => a.pub # <<>>
            /\ (a.key_setup = "pick" /\ pubs = {}) => ~a.yn
        aborted == [abort |-> TRUE, username |-> <<"a", "l">>, host |-> DEFAULT_HOST, email |-> <<"e">>,
                    remote_choice |-> REMOTE_HTTPS, key_setup |-> "gen", pub |-> <<>>,
                    yn |-> FALSE, keygen_ok |-> TRUE, token |-> <<>>]
    IN  {a \in full : asked(a)} \cup {aborted}

\* the files that a user may have before git-id runs: a key pair, and a public key
\* whose private key is gone
OldKeys ==
    { {},
      {[path |-> ssh_dir \o <<"/", "i", "d", "_", "r", "s", "a">>, mode |-> "644"],
       [path |-> ssh_dir \o <<"/", "i", "d", "_", "r", "s", "a", ".", "p", "u", "b">>, mode |-> "644"]},
      {[path |-> ssh_dir \o <<"/", "o", "l", "d", ".", "p", "u", "b">>, mode |-> "644"]} }

\* accounts.toml before git-id runs: absent, or edited by hand (host left out)
OldAccounts == {<<>>, <<Account(<<"a", "l">>, <<"e">>, <<>>, <<>>, <<>>)>>}

Init ==
    /\ accounts \in OldAccounts
    /\ acctFile = (accounts # <<>>)
    /\ sshDir \in BOOLEAN
    /\ keyFiles \in (IF sshDir THEN OldKeys ELSE {{}})
    /\ cfgExists \in (IF sshDir THEN BOOLEAN ELSE {FALSE})
    /\ cfgText = (IF cfgExists THEN <<"H", "o", "s", "t", " ", "x", "\n">> ELSE <<>>)
    /\ remotes = <<>>
    /\ inRepo = FALSE
    /\ gitCfg = [local |-> NoIdentity, global |-> NoIdentity]
    /\ argv = NoArgv
    /\ runs = 0
    /\ last = [cmd |-> "none", dry |-> FALSE, exit |-> 0, events |-> <<>>]

CmdAdd ==
    /\ runs < MaxCmds
    /\ \E dry \in BOOLEAN :
          \E ans \in AddAnswers(pub_files(Start), dry) :
              Leaves("add", dry, cmd_add(Start, dry, ans), ans)
    /\ runs' = runs + 1
    /\ UNCHANGED <<remotes, inRepo, gitCfg, argv>>

CmdSshConfig ==
    /\ runs < MaxCmds
    /\ \E dry \in BOOLEAN :
          Leaves("ssh config", dry, cmd_ssh_config(Start, dry), <<>>)
    /\ runs' = runs + 1
    /\ UNCHANGED <<remotes, inRepo, gitCfg, argv>>

Next == CmdAdd \/ CmdSshConfig

Spec == Init /\ [][Next]_vars

(***************************************************************************)
(* Claims about the directory commands                                     *)
(***************************************************************************)
\* C6: no two accounts of the directory share an account_id, and an add whose
\* (username, effective host) is that of an existing account exits 2 and saves
\* nothing
C6_UniqueIdentity ==
    /\ \A i \in 1..Len(accounts), j \in 1..Len(accounts) :
          i # j => account_id(accounts[i]) # account_id(accounts[j])
    /\ (/\ last.cmd = "add"
        /\ ~last.ans.abort
        /\ \E i \in 1..Len(last.before) :
              /\ last.before[i].username = last.ans.username
              /\ effective_host(last.before[i]) = last.ans.host)
          => (last.exit = 2 /\ accounts = last.before)

\* C8: a command run with --dry-run creates, writes, deletes and chmods no file
\* or directory, and runs no subprocess with side effects
C8_DryRunChangesNothing ==
    [][last'.dry =>
          /\ UNCHANGED <<accounts, acctFile, sshDir, cfgExists, cfgText, keyFiles>>
          /\ \A i \in 1..Len(last'.events) : last'.events[i].op = "warn"]_vars

(***************************************************************************)
(* commands/remove.rs                                                      *)
(***************************************************************************)
\* remove_ssh_config_stanza, lines 66-71: the file is backed up and rewritten
write_removed(st, new_content) ==
    Ev(Ev(Ev([backup(st, "config", TRUE) EXCEPT !.cfgText = new_content],
             [op |-> "write", file |-> "config"]),
          [op |-> "chmod", file |-> "config", mode |-> "600"]),
       [op |-> "ok", what |-> "removed stanza"])

\* a plausible slip: the test for the start marker is left out
remove_ssh_config_stanza_unguarded(st, acct_id, dry) ==
    IF st.exit # Running \/ ~st.cfgExists THEN st
    ELSE IF dry THEN Ev(st, [op |-> "info", what |-> "would remove stanza"])
    ELSE write_removed(st, remove_stanza(st.cfgText, StartMarker(acct_id), EndMarker(acct_id)))

\* a plausible slip: the test for --dry-run is the wrong way round
remove_ssh_config_stanza_dry_inverted(st, acct_id, dry) ==
    IF st.exit # Running \/ ~st.cfgExists THEN st
    ELSE IF ~Contains(st.cfgText, StartMarker(acct_id))
    THEN Ev(st, [op |-> "info", what |-> "no stanza"])
    ELSE IF ~dry THEN Ev(st, [op |-> "info", what |-> "would remove stanza"])
    ELSE write_removed(st, remove_stanza(st.cfgText, StartMarker(acct_id), EndMarker(acct_id)))

remove_ssh_config_stanza(st, acct_id, dry) ==
    IF st.exit # Running \/ ~st.cfgExists THEN st
    ELSE IF ~Contains(st.cfgText, StartMarker(acct_id))
    THEN Ev(st, [op |-> "info", what |-> "no stanza"])
    ELSE IF dry THEN Ev(st, [op |-> "info", what |-> "would remove stanza"])
    ELSE write_removed(st, remove_stanza(st.cfgText, StartMarker(acct_id), EndMarker(acct_id)))

\* handle_key_files, lines 80-87: one of the two files of the loop
delete_key_file(st, f, dry) ==
    IF ~exists(st, f) THEN st
    ELSE IF dry THEN Ev(st, [op |-> "info", what |-> "would delete"])
    ELSE Ev([st EXCEPT !.keyFiles = {g \in @ : g.path # f}], [op |-> "delete", file |-> f])

handle_key_files(st, ssh_key, delete_keys, dry) ==
    IF st.exit # Running \/ ~delete_keys THEN st
    ELSE delete_key_file(delete_key_file(st, ssh_key, dry), with_extension(ssh_key, <<"p", "u", "b">>), dry)

\* cmd_remove, lines 36-47: the account is filtered out and the file saved
remove_account(st, acc, delete_keys, dry) ==
    LET loaded == IF st.acctFile THEN st.accounts ELSE <<>>
        new_accounts == SelectSeq(loaded, LAMBDA a : account_id(a) # account_id(acc))
    IN  IF acc.ssh_key # <<>>
        THEN handle_key_files(save_accounts(st, new_accounts, dry), acc.ssh_key, delete_keys, dry)
        ELSE save_accounts(st, new_accounts, dry)

\* cmd_remove; confirm is the answer y to "Confirm removal?", asked without --yes
cmd_remove(st0, key, yes, confirm, delete_keys, dry) ==
    LET found == find_account(IF st0.acctFile THEN st0.accounts ELSE <<>>, key)
    IN  IF found.kind # "found" THEN die(st0, 2)
        ELSE IF ~yes /\ ~confirm THEN finish(Ev(st0, [op |-> "info", what |-> "aborted"]))
        ELSE finish(remove_account(remove_ssh_config_stanza(st0, account_id(found.acc), dry),
                                   found.acc, delete_keys, dry))

(***************************************************************************)
(* git-id remove over a directory, an SSH config and the key files         *)
(***************************************************************************)
RemoveAccounts ==
    { Account(<<"a", "l">>, <<"e">>, DEFAULT_HOST, <<"/", "k">>, <<>>),
      Account(<<"a", "l">>, <<"e">>, <<>>, <<>>, <<>>),
      Account(<<"a", "l">>, <<"e">>, <<"g", "l", ".", "i", "o">>, <<>>, <<>>),
      Account(<<"b", "o">>, <<"e">>, <<"g", "l", ".", "i", "o">>, <<"/", "k">>, <<>>) }

RemoveDirectories ==
    {<<a>> : a \in RemoveAccounts} \cup {d \in RemoveAccounts \X RemoveAccounts : d[1] # d[2]}

\* fragments of a config that was edited by hand: the markers of al@github.com,
\* a newline, other text
RemovePieces ==
    {NL, <<"x">>, StartMarker(<<"a", "l", "@", "g", "i", "t", "h", "u", "b", ".", "c", "o", "m">>), EndMarker(<<"a", "l", "@", "g", "i", "t", "h", "u", "b", ".", "c", "o", "m">>)}

\* every text made of at most n of these fragments
RECURSIVE RemoveTexts(_)
RemoveTexts(n) ==
    IF n = 0 THEN {<<>>}
    ELSE LET T == RemoveTexts(n - 1) IN T \cup {t \o p : t \in T, p \in RemovePieces}

RemoveArgvs ==
    {a \in [cmd : {"remove"}, key : {<<"a", "l">>, <<"b", "o">>, <<"a", "l", "@", "g", "i", "t", "h", "u", "b", ".", "c", "o", "m">>}, yes : BOOLEAN,
             confirm : BOOLEAN, delete_keys : BOOLEAN, dry : BOOLEAN] : a.yes => ~a.confirm}

InitRemove ==
    /\ accounts \in RemoveDirectories
    /\ acctFile = TRUE
    /\ sshDir = TRUE
    /\ cfgExists \in BOOLEAN
    /\ cfgText \in (IF cfgExists THEN RemoveTexts(MaxPieces) ELSE {<<>>})
    /\ keyFiles \in {{}, {[path |-> <<"/", "k">>, mode |-> "600"], [path |-> <<"/", "k", ".", "p", "u", "b">>, mode |-> "644"]}}
    /\ remotes = <<>>
    /\ inRepo = FALSE
    /\ gitCfg = [local |-> NoIdentity, global |-> NoIdentity]
    /\ argv \in RemoveArgvs
    /\ runs = 0
    /\ last = [cmd |-> "none", dry |-> FALSE, exit |-> 0, events |-> <<>>]

CmdRemove ==
    /\ argv.cmd = "remove"
    /\ runs < MaxCmds
    /\ Leaves("remove", argv.dry,
              cmd_remove(Start, argv.key, argv.yes, argv.confirm, argv.delete_keys, argv.dry),
              argv)
    /\ runs' = runs + 1
    /\ UNCHANGED <<remotes, inRepo, gitCfg, argv>>

NextRemove == CmdRemove

SpecRemove == InitRemove /\ [][NextRemove]_vars

\* the account that this remove is to remove, once found and confirmed
Removing ==
    /\ find_account(load_accounts, argv.key).kind = "found"
    /\ argv.yes \/ argv.confirm

RemovedId == account_id(find_account(load_accounts, argv.key).acc)

HasEvent(r, op, what) ==
    \E i \in 1..Len(r.events) : r.events[i].op = op /\ r.events[i].what = what

TouchesConfig(r) ==
    \E i \in 1..Len(r.events) :
        r.events[i].op \in {"write", "backup", "chmod"} /\ r.events[i].file = "config"

\* C12: a remove whose SSH config holds no start marker of the account leaves the
\* text byte-for-byte unchanged, reports that there is no stanza, neither writes
\* nor backs up the config, and exits 0
C12_RemoveAbsentIsNoop ==
    [][(Removing /\ cfgExists /\ ~Contains(cfgText, StartMarker(RemovedId))) =>
          /\ cfgText' = cfgText
          /\ HasEvent(last', "info", "no stanza")
          /\ ~HasEvent(last', "ok", "removed stanza")
          /\ ~TouchesConfig(last')
          /\ last'.exit = 0]_vars

\* a remove has met a config without the account's marker and said so
C12_Witness_NothingToRemove ==
    /\ last.cmd = "remove"
    /\ ~last.dry
    /\ cfgText # <<>>
    /\ HasEvent(last, "info", "no stanza")
    /\ last.exit = 0

\* C13: a remove whose SSH config holds the account's start marker but no end
\* marker after it leaves the text unchanged and reports that nothing was removed
C13_RemoveMalformedIsNotFound ==
    [][(/\ Removing /\ cfgExists
        /\ Contains(cfgText, StartMarker(RemovedId))
        /\ ~Contains(Tail_from(cfgText, Find(cfgText, StartMarker(RemovedId))),
                     EndMarker(RemovedId))) =>
          /\ cfgText' = cfgText
          /\ ~HasEvent(last', "ok", "removed stanza")
          /\ ~HasEvent(last', "info", "would remove stanza")]_vars

\* C27: a confirmed remove without --dry-run takes exactly the account it found
\* out of the directory: every other account stays, with its fields and in its
\* order, also one with the same username and an empty host beside github.com
C27_RemoveExactlyOne ==
    [][(Removing /\ ~argv.dry) =>
          LET found == find_account(load_accounts, argv.key).acc
          IN  /\ accounts' = SelectSeq(accounts, LAMBDA a : a # found)
              /\ Len(accounts') = Len(accounts) - 1]_vars

(***************************************************************************)
(* commands/ssh.rs: ssh gen and ssh pick                                   *)
(***************************************************************************)
\* lines 16-22 and 87-93: the key path is recorded on every account of the id
set_ssh_key(accts, uid, key) ==
    [i \in 1..Len(accts) |->
        IF account_id(accts[i]) = uid THEN [accts[i] EXCEPT !.ssh_key = key] ELSE accts[i]]

\* lines 23-24 and 94-95: the directory is saved and the SSH config written
save_and_update(st, accts, dry) ==
    finish(update_ssh_config(save_accounts(st, accts, dry), accts, dry))

\* lines 13-24 of cmd_ssh_gen, for the account found
ssh_gen_found(st0, acc, dry, keygen_ok) ==
    save_and_update(fix_key_permissions(gen_ssh_key(st0, acc.username, dry, keygen_ok).st,
                                        default_key_path(acc.username)),
                    set_ssh_key(IF st0.acctFile THEN st0.accounts ELSE <<>>, account_id(acc),
                                default_key_path(acc.username)),
                    dry)

cmd_ssh_gen(st0, username, dry, keygen_ok) ==
    LET found == find_account(IF st0.acctFile THEN st0.accounts ELSE <<>>, username)
    IN  IF found.kind # "found" THEN die(st0, 2)
        ELSE ssh_gen_found(st0, found.acc, dry, keygen_ok)

\* lines 66-85 of cmd_ssh_pick: [st, key], the private key of the picked file
pick_final_priv(st, acc, dry, ans) ==
    LET priv_key == with_extension(ans.pub, <<>>)
    IN  IF ~exists(st, priv_key)
        THEN IF ans.yn
             THEN gen_ssh_key(Ev(st, [op |-> "warn", what |-> "no private key"]), acc.username,
                              dry, ans.keygen_ok)
             ELSE [st |-> die(Ev(st, [op |-> "warn", what |-> "no private key"]), 2),
                   key |-> <<>>]
        ELSE [st |-> add_key_to_agent(fix_key_permissions(st, priv_key), priv_key, dry),
              key |-> priv_key]

\* lines 87-96 of cmd_ssh_pick
ssh_pick_record(st0, acc, final, dry) ==
    save_and_update(final.st,
                    set_ssh_key(IF st0.acctFile THEN st0.accounts ELSE <<>>, account_id(acc),
                                final.key),
                    dry)

\* cmd_ssh_pick; ans.pub is the file picked, ans.yn the answer to "Generate a new
\* ed25519 key instead?"
cmd_ssh_pick(st0, username, dry, ans) ==
    LET found == find_account(IF st0.acctFile THEN st0.accounts ELSE <<>>, username)
    IN  IF found.kind # "found" THEN die(st0, 2)
        ELSE IF pub_files(st0) = {} THEN die(st0, 1)
        ELSE ssh_pick_record(st0, found.acc, pick_final_priv(st0, found.acc, dry, ans), dry)

(***************************************************************************)
(* The life of a directory: add, ssh gen, ssh pick, ssh config and remove, *)
(* run without --dry-run from an empty directory                           *)
(***************************************************************************)
\* the keys that name an account on the command line
LifeKeys == {<<"a", "l">>, <<"j", ".", "d">>, <<"a", "l", "@", "g", "l", ".", "i", "o">>}

\* the answers to the prompts of add: SSH with a key, or HTTPS with a token
LifeAnswers(pubs) == {a \in AddAnswers(pubs, FALSE) : a.remote_choice # REMOTE_BOTH}

\* the answers to the prompts of ssh pick
PickAnswers(pubs) ==
    [pub : IF pubs = {} THEN {<<>>} ELSE pubs, yn : BOOLEAN, keygen_ok : BOOLEAN]

InitLife ==
    /\ accounts = <<>>
    /\ acctFile \in BOOLEAN
    /\ sshDir \in BOOLEAN
    /\ keyFiles \in (IF sshDir THEN OldKeys ELSE {{}})
    /\ cfgExists \in (IF sshDir THEN BOOLEAN ELSE {FALSE})
    /\ cfgText = (IF cfgExists THEN <<"H", "o", "s", "t", " ", "x", "\n">> ELSE <<>>)
    /\ remotes = <<>>
    /\ inRepo = FALSE
    /\ gitCfg = [local |-> NoIdentity, global |-> NoIdentity]
    /\ argv = NoArgv
    /\ runs = 0
    /\ last = [cmd |-> "none", dry |-> FALSE, exit |-> 0, events |-> <<>>]

LifeAdd ==
    /\ runs < MaxCmds
    /\ \E ans \in LifeAnswers(pub_files(Start)) :
          Leaves("add", FALSE, cmd_add(Start, FALSE, ans), ans)
    /\ runs' = runs + 1
    /\ UNCHANGED <<remotes, inRepo, gitCfg, argv>>

LifeSshGen ==
    /\ runs < MaxCmds
    /\ \E key \in LifeKeys, keygen_ok \in BOOLEAN :
          Leaves("ssh gen", FALSE, cmd_ssh_gen(Start, key, FALSE, keygen_ok),
                 [key |-> key, keygen_ok |-> keygen_ok])
    /\ runs' = runs + 1
    /\ UNCHANGED <<remotes, inRepo, gitCfg, argv>>

LifeSshPick ==
    /\ runs < MaxCmds
    /\ \E key \in LifeKeys, ans \in PickAnswers(pub_files(Start)) :
          Leaves("ssh pick", FALSE, cmd_ssh_pick(Start, key, FALSE, ans),
                 [key |-> key, pub |-> ans.pub, yn |-> ans.yn, keygen_ok |-> ans.keygen_ok])
    /\ runs' = runs + 1
    /\ UNCHANGED <<remotes, inRepo, gitCfg, argv>>

LifeSshConfig ==
    /\ runs < MaxCmds
    /\ Leaves("ssh config", FALSE, cmd_ssh_config(Start, FALSE), <<>>)
    /\ runs' = runs + 1
    /\ UNCHANGED <<remotes, inRepo, gitCfg, argv>>

LifeRemove ==
    /\ runs < MaxCmds
    /\ \E key \in LifeKeys, delete_keys \in BOOLEAN :
          Leaves("remove", FALSE, cmd_remove(Start, key, TRUE, FALSE, delete_keys, FALSE),
                 [key |-> key, delete_keys |-> delete_keys])
    /\ runs' = runs + 1
    /\ UNCHANGED <<remotes, inRepo, gitCfg, argv>>

NextLife == LifeAdd \/ LifeSshGen \/ LifeSshPick \/ LifeSshConfig \/ LifeRemove

SpecLife == InitLife /\ [][NextLife]_vars

(***************************************************************************)
(* Claims about the life of a directory                                    *)
(***************************************************************************)
\* the ids whose start marker stands in the text
MarkedIds(text) ==
    {id \in {u \o <<"@">> \o h : u \in AddUsernames, h \in AddHosts} :
        Contains(text, StartMarker(id))}

\* ssh gen finds its account, the default key is not on disk, and ssh-keygen fails
GenFails(r) ==
    LET found == find_account(load_accounts, r.ans.key)
    IN  /\ r.cmd = "ssh gen"
        /\ found.kind = "found"
        /\ ~exists(Start, default_key_path(found.acc.username))
        /\ ~r.ans.keygen_ok

\* ssh pick finds its account, the private key of the picked file is not on disk,
\* and the user declines to generate one
PickDeclined(r) ==
    /\ r.cmd = "ssh pick"
    /\ find_account(load_accounts, r.ans.key).kind = "found"
    /\ pub_files(Start) # {}
    /\ ~exists(Start, with_extension(r.ans.pub, <<>>))
    /\ ~r.ans.yn

IsWrite(r, i, file) == r.events[i].op = "write" /\ r.events[i].file = file

\* the i-th event of the report r is the backup of the file
IsBackup(r, i, file) == r.events[i].op = "backup" /\ r.events[i].file = file

\* C22: without --dry-run, every write of accounts.toml or of the SSH config that
\* finds the file on disk (there before the command, or written earlier by it)
\* comes directly after the backup of that file in the same command
C22_BackupBeforeOverwrite ==
    [][~last'.dry =>
          \A i \in 1..Len(last'.events) :
              /\ (/\ IsWrite(last', i, "accounts.toml")
                  /\ acctFile \/ \E j \in 1..(i - 1) : IsWrite(last', j, "accounts.toml"))
                    => (i > 1 /\ IsBackup(last', i - 1, "accounts.toml"))
              /\ (/\ IsWrite(last', i, "config")
                  /\ cfgExists \/ \E j \in 1..(i - 1) : IsWrite(last', j, "config"))
                    => (i > 1 /\ IsBackup(last', i - 1, "config"))]_vars

\* one command has overwritten both files, each after its backup
C22_Witness_BothBackedUp ==
    /\ ~last.dry
    /\ \E i \in 2..Len(last.events) :
          IsBackup(last, i - 1, "accounts.toml") /\ IsWrite(last, i, "accounts.toml")
    /\ \E i \in 2..Len(last.events) :
          IsBackup(last, i - 1, "config") /\ IsWrite(last, i, "config")
    /\ cfgText # <<"H", "o", "s", "t", " ", "x", "\n">>

\* C23: the public key of an account is at its private key path with ".pub"
\* appended, whatever the file name: a remove with --delete-keys of an account
\* with the key K addresses K and K.pub, and leaves neither on disk
C23_PublicKeyBesidePrivate ==
    LET found == find_account(last.before, last.ans.key)
        K == found.acc.ssh_key
    IN  (/\ last.cmd = "remove" /\ last.exit = 0
         /\ last.ans.delete_keys
         /\ found.kind = "found"
         /\ K # <<>>) =>
            /\ with_extension(K, <<"p", "u", "b">>) = K \o <<".", "p", "u", "b">>
            /\ \A f \in keyFiles : f.path \notin {K, K \o <<".", "p", "u", "b">>}

\* C25: from an empty directory and an SSH config without markers, after any
\* sequence of completed add, ssh gen, ssh pick, ssh config and remove commands
\* without --dry-run, every account id with a start marker in the SSH config is
\* the account_id of an account of the directory
C25_NoOrphanStanzas ==
    MarkedIds(cfgText) \subseteq {account_id(accounts[i]) : i \in 1..Len(accounts)}

\* a remove has taken the only account and its stanza away
C25_Witness_RemovedWithStanza ==
    /\ last.cmd = "remove" /\ last.exit = 0
    /\ Len(last.before) = 1
    /\ HasEvent(last, "ok", "removed stanza")
    /\ accounts = <<>>
    /\ MarkedIds(cfgText) = {}

\* C30: ssh-keygen is never run for a path that is on disk; an ssh gen that finds
\* the default key ~/.ssh/id_ed25519_{username} on disk leaves the key files as
\* they are and records that path on the account
C30_GenKeepsExistingKey ==
    [][LET found == find_account(load_accounts, last'.ans.key)
           key == default_key_path(found.acc.username)
       IN  /\ \A i \in 1..Len(last'.events) :
                 last'.events[i].op = "ssh-keygen" =>
                     \A f \in keyFiles : f.path # last'.events[i].file
           /\ (last'.cmd = "ssh gen" /\ found.kind = "found" /\ exists(Start, key)) =>
                 /\ last'.exit = 0
                 /\ keyFiles' = keyFiles
                 /\ \A i \in 1..Len(accounts') :
                       account_id(accounts'[i]) = account_id(found.acc) =>
                           accounts'[i].ssh_key = key]_vars

\* two accounts with the same username on different hosts are recorded with the
\* same key: the second command found the key of the first and kept it
C30_Witness_SharedKey ==
    /\ last.exit = 0
    /\ HasEvent(last, "warn", "key exists")
    /\ Len(accounts) = 2
    /\ accounts[1].username = accounts[2].username
    /\ accounts[1].host # accounts[2].host
    /\ accounts[1].ssh_key = default_key_path(accounts[1].username)
    /\ accounts[2].ssh_key = accounts[1].ssh_key
    /\ \E f \in keyFiles : f.path = accounts[1].ssh_key

====
